---- MODULE Spec2Model ----
(***************************************************************************)
(* frontend/vite.config.mjs: the configuration callback handed to Vite's   *)
(* defineConfig.  The callback takes the context object Vite builds for a  *)
(* run ({ mode, command, isPreview }) and returns the configuration        *)
(* record.  The model keeps the module's environment (__dirname and the    *)
(* process working directory, both read by path.resolve) and the history   *)
(* of invocations, each with the completion of the callback.               *)
(*                                                                         *)
(* Strings are TLA+ strings and + is \o.  A POSIX path is a record         *)
(* [abs, segs]: whether it starts with "/" and its "/"-separated segments. *)
(* __dirname is the directory of the configuration file, as Vite's config  *)
(* loader defines it when it bundles the file.                             *)
(***************************************************************************)
EXTENDS Integers, Sequences, FiniteSets, TLC

VARIABLES dirname, cwd, calls

vars == <<dirname, cwd, calls>>

\* ---------------------------------------------------------------- bounds

\* Invocations of the callback recorded in one behaviour.
MaxCalls == 3

\* ---------------------------------------------------------------- inputs

\* The mode strings the bundler may pass: its two defaults, the empty
\* string, another environment name and near-misses of "development".
Modes ==
  {"development", "production", "", "test", "Development", "dev", "development "}

\* (command, isPreview) as Vite sets them for dev, build and preview.
Runs == {<<"serve", FALSE>>, <<"build", FALSE>>, <<"serve", TRUE>>}

Contexts ==
  {[mode |-> m, command |-> r[1], isPreview |-> r[2]] : m \in Modes, r \in Runs}

\* Absolute directories the configuration file may live in.
ConfigDirs ==
  {[abs |-> TRUE, segs |-> <<"app", "frontend">>],
   [abs |-> TRUE, segs |-> <<"srv", "www", "src">>]}

\* Working directories the bundler may be started from.
WorkDirs ==
  {[abs |-> TRUE, segs |-> <<"app", "frontend">>],
   [abs |-> TRUE, segs |-> <<"app">>]}

\* ------------------------------------------------------------ path.resolve

\* path.posix.normalizeString: "" and "." segments are dropped, ".." removes
\* the segment before it (at the root of an absolute path it is dropped).
RECURSIVE NormalizeSegs(_, _)
NormalizeSegs(segs, acc) ==
  IF segs = <<>> THEN acc
  ELSE LET s == Head(segs)
           rest == Tail(segs)
       IN  IF s = "" \/ s = "." THEN NormalizeSegs(rest, acc)
           ELSE IF s = ".."
             THEN IF acc = <<>> THEN NormalizeSegs(rest, acc)
                  ELSE NormalizeSegs(rest, SubSeq(acc, 1, Len(acc) - 1))
             ELSE NormalizeSegs(rest, Append(acc, s))

\* path.resolve's loop: the arguments are taken from the right and prepended
\* until an absolute path is formed.
RECURSIVE ResolveFrom(_, _, _)
ResolveFrom(paths, i, acc) ==
  IF acc.abs \/ i = 0 THEN acc
  ELSE ResolveFrom(paths, i - 1,
                   [abs |-> paths[i].abs, segs |-> paths[i].segs \o acc.segs])

\* path.resolve(...paths): the working directory is used only when the
\* arguments form no absolute path; the result is normalized and absolute.
PathResolve(paths) ==
  LET joined == ResolveFrom(paths, Len(paths), [abs |-> FALSE, segs |-> <<>>])
      full == IF joined.abs THEN joined.segs ELSE cwd.segs \o joined.segs
  IN  [abs |-> TRUE, segs |-> NormalizeSegs(full, <<>>)]

\* The literal "./src".
SrcLiteral == [abs |-> FALSE, segs |-> <<".", "src">>]

\* ---------------------------------------------------------- the callback

isDevIgnoreCase(mode) == mode \in {"development", "Development"}

isDev(mode) == mode = "development"

devHost == "localhost"

devPort == 5173

devOriginHttps(mode) ==
  IF isDev(mode) THEN "https://" \o devHost \o ":" \o ToString(devPort) ELSE ""

devOrigin(mode) ==
  IF isDev(mode) THEN "http://" \o devHost \o ":" \o ToString(devPort) ELSE ""

baseRootOnly(mode) == "/static/"

base(mode) == devOrigin(mode) \o "/static/"

\* The handle tailwindcss() returns.
tailwindcss == [name |-> "@tailwindcss/vite"]

plugins == <<tailwindcss>>

serverHostByMode(mode) ==
  [host |-> IF isDev(mode) THEN devHost ELSE "0.0.0.0",
   port |-> devPort,
   strictPort |-> TRUE,
   origin |-> devOrigin(mode)]

server(mode) ==
  [host |-> devHost,
   port |-> devPort,
   strictPort |-> TRUE,
   origin |-> devOrigin(mode)]

buildKeepOutDir ==
  [manifest |-> TRUE,
   outDir |-> "./dist/",
   emptyOutDir |-> FALSE,
   rollupOptions |-> [main |-> "./src/main.js"]]

build ==
  [manifest |-> TRUE,
   outDir |-> "./dist/",
   emptyOutDir |-> TRUE,
   rollupOptions |-> [main |-> "./src/main.js"]]

resolveFromCwd == [alias |-> [at \in {"@"} |-> PathResolve(<<SrcLiteral>>)]]

resolve == [alias |-> [at \in {"@"} |-> PathResolve(<<dirname, SrcLiteral>>)]]

\* The object literal the callback returns.
Config(mode) ==
  [base |-> base(mode),
   plugins |-> plugins,
   server |-> server(mode),
   build |-> build,
   resolve |-> resolve]

\* A normal completion of the callback.
Return(v) == [type |-> "return", value |-> v]

CallbackStrict(ctx) ==
  IF ctx.mode \in {"development", "production"}
    THEN Return(Config(ctx.mode))
    ELSE [type |-> "throw", value |-> "Error: unknown mode"]

CallbackCounting(ctx) ==
  Return([Config(ctx.mode) EXCEPT !.server.port = devPort + Len(calls)])

CallbackByCommand(ctx) ==
  Return(Config(IF ctx.command = "serve" THEN "development" ELSE "production"))

\* ({ mode }) => { ... return { ... }; }
Callback(ctx) == Return(Config(ctx.mode))

\* ------------------------------------------------------------- behaviour

Init ==
  /\ dirname \in ConfigDirs
  /\ cwd \in WorkDirs
  /\ calls = <<>>

\* The bundler calls the exported callback with a context.
Invoke(ctx) ==
  /\ Len(calls) < MaxCalls
  /\ calls' = Append(calls, [ctx |-> ctx, out |-> Callback(ctx)])
  /\ UNCHANGED <<dirname, cwd>>

Next == \E ctx \in Contexts : Invoke(ctx)

Spec == Init /\ [][Next]_vars

\* ---------------------------------------------------------------- claims

ModeOf(i) == calls[i].ctx.mode

Returned(i) == calls[i].out.type = "return"

ConfigOf(i) == calls[i].out.value

\* C1: an invocation with mode exactly "development" returns base
\* "http://localhost:5173/static/" and server.origin "http://localhost:5173".
C1_DevelopmentValues ==
  \A i \in DOMAIN calls :
    ModeOf(i) = "development" =>
      /\ Returned(i)
      /\ ConfigOf(i).base = "http://localhost:5173/static/"
      /\ ConfigOf(i).server.origin = "http://localhost:5173"

C1_Witness ==
  \E i \in DOMAIN calls : ModeOf(i) = "development" /\ Returned(i)

\* C2: an invocation with any mode other than exactly "development",
\* near-misses included, returns base "/static/" and server.origin "".
C2_NonDevelopmentValues ==
  \A i \in DOMAIN calls :
    ModeOf(i) # "development" =>
      /\ Returned(i)
      /\ ConfigOf(i).base = "/static/"
      /\ ConfigOf(i).server.origin = ""

C2_Witness ==
  /\ \E i \in DOMAIN calls : ModeOf(i) = "Development" /\ Returned(i)
  /\ \E i \in DOMAIN calls : ModeOf(i) = "development " /\ Returned(i)
  /\ \E i \in DOMAIN calls : ModeOf(i) = "" /\ Returned(i)

\* C3: every returned config has base = server.origin + "/static/", and
\* server.origin is non-empty exactly when mode is "development", in which
\* case it is "http://" + host + ":" + port.
C3_BaseIsOriginPlusStatic ==
  \A i \in DOMAIN calls :
    /\ Returned(i)
    /\ ConfigOf(i).base = ConfigOf(i).server.origin \o "/static/"
    /\ (ConfigOf(i).server.origin # "") <=> (ModeOf(i) = "development")
    /\ ConfigOf(i).server.origin # "" =>
         ConfigOf(i).server.origin =
           "http://" \o ConfigOf(i).server.host \o ":"
             \o ToString(ConfigOf(i).server.port)

C3_Witness ==
  /\ \E i \in DOMAIN calls : ModeOf(i) = "development" /\ Returned(i)
  /\ \E i \in DOMAIN calls : ModeOf(i) = "production" /\ Returned(i)
  /\ \E i \in DOMAIN calls : ModeOf(i) = "dev" /\ Returned(i)

\* C4: in every returned config the build block designates "./src/main.js"
\* as the bundler's entry point, that is, as the input of rollupOptions.
C4_EntryPointIsMainJs ==
  \A i \in DOMAIN calls :
    /\ Returned(i)
    /\ "input" \in DOMAIN ConfigOf(i).build.rollupOptions
    /\ ConfigOf(i).build.rollupOptions.input = "./src/main.js"

\* C5: every invocation, whatever its mode, completes normally with a
\* config record, and a mode that is neither "development" nor "production"
\* gets the production-branch values.
C5_Total ==
  \A i \in DOMAIN calls :
    /\ Returned(i)
    /\ DOMAIN ConfigOf(i) = {"base", "plugins", "server", "build", "resolve"}
    /\ ModeOf(i) \notin {"development", "production"} =>
         /\ ConfigOf(i).base = "/static/"
         /\ ConfigOf(i).server.origin = ""

C5_Witness ==
  /\ \E i \in DOMAIN calls : ModeOf(i) = "test" /\ Returned(i)
  /\ \E i \in DOMAIN calls : ModeOf(i) = "" /\ Returned(i)
  /\ \E i \in DOMAIN calls : ModeOf(i) = "development" /\ Returned(i)

\* C6: every returned config has server.host "localhost", server.port 5173
\* and server.strictPort true, whatever the mode.
C6_ServerFrame ==
  \A i \in DOMAIN calls :
    /\ Returned(i)
    /\ ConfigOf(i).server.host = "localhost"
    /\ ConfigOf(i).server.port = 5173
    /\ ConfigOf(i).server.strictPort = TRUE

C6_Witness ==
  /\ \E i \in DOMAIN calls : ModeOf(i) = "development" /\ Returned(i)
  /\ \E i \in DOMAIN calls : ModeOf(i) = "production" /\ Returned(i)

\* C7: every returned config has build.outDir "./dist/", build.manifest
\* true and build.emptyOutDir true, whatever the mode.
C7_BuildFrame ==
  \A i \in DOMAIN calls :
    /\ Returned(i)
    /\ ConfigOf(i).build.outDir = "./dist/"
    /\ ConfigOf(i).build.manifest = TRUE
    /\ ConfigOf(i).build.emptyOutDir = TRUE

C7_Witness ==
  /\ \E i \in DOMAIN calls : ModeOf(i) = "development" /\ Returned(i)
  /\ \E i \in DOMAIN calls : ModeOf(i) = "test" /\ Returned(i)

\* C8: an invocation repeated with the same mode completes as the earlier
\* one did: the calls made in between change nothing of its result.
C8_Idempotent ==
  \A i \in DOMAIN calls : \A j \in DOMAIN calls :
    (i < j /\ ModeOf(i) = ModeOf(j)) => calls[j].out = calls[i].out

C8_Witness ==
  \E i \in DOMAIN calls : \E j \in DOMAIN calls :
    /\ j = i + 2
    /\ calls[i].ctx = calls[j].ctx
    /\ ModeOf(i + 1) # ModeOf(i)
    /\ Returned(i) /\ Returned(j)

\* C9: in every returned config resolve.alias has the single key "@", mapped
\* to the absolute path of "src" in the configuration file's directory.
C9_AliasIsSrcBesideConfig ==
  \A i \in DOMAIN calls :
    /\ Returned(i)
    /\ DOMAIN ConfigOf(i).resolve.alias = {"@"}
    /\ ConfigOf(i).resolve.alias["@"] =
         [abs |-> TRUE, segs |-> Append(dirname.segs, "src")]

C9_Witness ==
  /\ cwd # dirname
  /\ \E i \in DOMAIN calls : ModeOf(i) = "development" /\ Returned(i)
  /\ \E i \in DOMAIN calls : ModeOf(i) = "production" /\ Returned(i)

\* C10: the returned config depends on the context's mode alone: contexts
\* that agree on mode and differ elsewhere get equal configs, and so do any
\* two contexts whose modes both differ from "development".
C10_DependsOnModeOnly ==
  \A i \in DOMAIN calls : \A j \in DOMAIN calls :
    /\ Returned(i) /\ Returned(j)
    /\ (ModeOf(i) = ModeOf(j) /\ calls[i].ctx # calls[j].ctx) =>
         ConfigOf(i) = ConfigOf(j)
    /\ (ModeOf(i) # "development" /\ ModeOf(j) # "development") =>
         ConfigOf(i) = ConfigOf(j)

C10_Witness ==
  \E i \in DOMAIN calls : \E j \in DOMAIN calls : \E k \in DOMAIN calls :
    /\ ModeOf(i) = ModeOf(j)
    /\ calls[i].ctx.command # calls[j].ctx.command
    /\ calls[i].ctx.isPreview # calls[k].ctx.isPreview
    /\ ModeOf(k) # ModeOf(i)
    /\ ModeOf(k) # "development" /\ ModeOf(i) # "development"
    /\ Returned(i) /\ Returned(j) /\ Returned(k)

====
